---- MODULE Spec2Model ----
(***************************************************************************)
(* Model of app.py: the update hub for the versioned package math_module.  *)
(* State: the local store (packages/math_module), the bucket listing, the  *)
(* interpreter's sys.path, and one record per request being served.        *)
(* Names of directory entries and versions are character sequences, so    *)
(* that splitting, parsing and ordering are computed as the code does.     *)
(***************************************************************************)
EXTENDS Integers, Sequences, FiniteSets, TLC

PACKAGE == "math_module"
LOCAL_STORE == "packages"

\* Bound on the number of requests served in one behaviour.
MaxRequests == 3

\* Bound on the number of requests served in one concurrent behaviour.
MaxConcurrent == 2

Workers == {1, 2}

\* Python's None, for values that are otherwise names.
None == <<>>

\* Entry names that occur under the store root and in the bucket.
N2 == <<"2", ".", "0">>
N9 == <<"9", ".", "0">>
N10 == <<"1", "0", ".", "0">>
NX == <<"x">>

LocalNames == {N2, N9, N10, NX}
RemoteNames == {N9, N10, NX}

\* Files of an unpacked version; "." marks the directory itself.
INIT_PY == "__init__.py"
OPS_PY == "ops.py"
DirMark == "."
ArchiveMembers == <<INIT_PY, OPS_PY>>
NoEntry == {}
PlainFile == {"file"}
FullDir == {DirMark, INIT_PY, OPS_PY}
EmptyDir == {DirMark}
\* A version directory that also holds a file its archive does not have.
STALE_PY == "old.py"
StaleDir == {DirMark, INIT_PY, OPS_PY, STALE_PY}

-----------------------------------------------------------------------------
(* Pure functions *)

Digits == {"0", "1", "2", "3", "4", "5", "6", "7", "8", "9"}

DigitVal(c) ==
  CASE c = "0" -> 0 [] c = "1" -> 1 [] c = "2" -> 2 [] c = "3" -> 3
    [] c = "4" -> 4 [] c = "5" -> 5 [] c = "6" -> 6 [] c = "7" -> 7
    [] c = "8" -> 8 [] c = "9" -> 9

\* str.split(sep): every separator cuts, empty pieces are kept.
RECURSIVE split(_, _)
split(s, sep) ==
  IF \A i \in 1..Len(s) : s[i] # sep
  THEN <<s>>
  ELSE LET i == CHOOSE k \in 1..Len(s) :
                  s[k] = sep /\ \A j \in 1..(k - 1) : s[j] # sep
       IN <<SubSeq(s, 1, i - 1)>> \o split(SubSeq(s, i + 1, Len(s)), sep)

IsDigits(seg) == Len(seg) > 0 /\ \A i \in 1..Len(seg) : seg[i] \in Digits

RECURSIVE ToInt(_)
ToInt(seg) ==
  IF seg = <<>> THEN 0
  ELSE ToInt(SubSeq(seg, 1, Len(seg) - 1)) * 10 + DigitVal(seg[Len(seg)])

RECURSIVE StripZeros(_)
StripZeros(t) ==
  IF t # <<>> /\ t[Len(t)] = 0 THEN StripZeros(SubSeq(t, 1, Len(t) - 1)) ELSE t

\* packaging.version.parse on a dotted release: the comparison key is the
\* tuple of segment values without trailing zeros; anything else raises
\* InvalidVersion (ok = FALSE).
version_parse(s) ==
  LET segs == split(s, ".")
  IN IF \A i \in 1..Len(segs) : IsDigits(segs[i])
     THEN [ok |-> TRUE,
           key |-> StripZeros([i \in 1..Len(segs) |-> ToInt(segs[i])])]
     ELSE [ok |-> FALSE, key |-> <<>>]

\* Order of two comparison keys: tuple order, segment by segment.
RECURSIVE KeyLess(_, _)
KeyLess(a, b) ==
  IF b = <<>> THEN FALSE
  ELSE IF a = <<>> THEN TRUE
  ELSE IF a[1] # b[1] THEN a[1] < b[1]
  ELSE KeyLess(Tail(a), Tail(b))

\* Order of the names as plain text, character by character.
CharCode(c) == IF c = "." THEN 46 ELSE IF c \in Digits THEN 48 + DigitVal(c) ELSE 120

RECURSIVE TextLess(_, _)
TextLess(a, b) ==
  IF b = <<>> THEN FALSE
  ELSE IF a = <<>> THEN TRUE
  ELSE IF a[1] # b[1] THEN CharCode(a[1]) < CharCode(b[1])
  ELSE TextLess(Tail(a), Tail(b))

\* The name of the downloaded archive next to the version directories.
ZipName(v) == v \o <<".", "z", "i", "p">>

\* Every name version.parse is applied to: the entries of the store, archives
\* included, and the names in the bucket; and its result for each of them.
ParsedNames == LocalNames \cup RemoteNames \cup {ZipName(v) : v \in RemoteNames}
Parsed == [n \in ParsedNames |-> version_parse(n)]

\* Variant of VersionLess: sorted() without key=version.parse.
VersionLess_text(x, y) == TextLess(x, y)

VersionLess(x, y) == KeyLess(Parsed[x].key, Parsed[y].key)

\* sorted(versions, key=version.parse), ascending.
RECURSIVE sorted(_)
sorted(S) ==
  IF S = {} THEN <<>>
  ELSE LET m == CHOOSE x \in S : \A o \in S : ~VersionLess(x, o)
       IN Append(sorted(S \ {m}), m)

\* A prefix of the bucket listing: "math_module/<name>/".
MakePrefix(n) == <<PACKAGE, "/">> \o n \o <<"/">>

RECURSIVE Reverse(_)
Reverse(q) == IF q = <<>> THEN <<>> ELSE Append(Reverse(Tail(q)), q[1])

\* Variant of list_versions_online: the list is sorted newest first.
list_versions_online_descending(resp) ==
  IF ~resp.ok THEN <<>>
  ELSE LET versions == {split(p, "/")[2] : p \in resp.prefixes}
       IN IF \E v \in versions : ~version_parse(v).ok
          THEN <<>>
          ELSE Reverse(sorted(versions))

\* list_versions_online on one response of the listing endpoint.
list_versions_online(resp) ==
  IF ~resp.ok THEN <<>>
  ELSE LET versions == {split(p, "/")[2] : p \in resp.prefixes}
       IN IF \E v \in versions : ~version_parse(v).ok
          THEN <<>>
          ELSE sorted(versions)

IsDir(f, d) == d \in DOMAIN f /\ DirMark \in f[d]

\* The loop of get_installed_version / get_previous_version over a listing.
QualifyingVersions(f, listing) ==
  {d \in listing : IsDir(f, d) /\ Parsed[d].ok}

\* An entry of the listing is gone by the time isdir looks at it.
Vanished(f, listing) == \E d \in listing : d \in DOMAIN f /\ f[d] = NoEntry

InstalledOf(versions) ==
  IF versions # {} THEN sorted(versions)[Cardinality(versions)] ELSE None

\* Variant of PreviousOf: versions[-1] where the code has versions[-2].
PreviousOf_last(versions) ==
  IF Cardinality(versions) >= 2
  THEN sorted(versions)[Cardinality(versions)] ELSE None

PreviousOf(versions) ==
  IF Cardinality(versions) >= 2
  THEN sorted(versions)[Cardinality(versions) - 1] ELSE None

\* Paths are sequences of components.
SitePath == <<"usr", "lib", "site-packages">>
VersionPath(ver) == <<LOCAL_STORE, PACKAGE, ver>>
ContainsBase(p) ==
  \E i \in 1..(Len(p) - 1) : p[i] = LOCAL_STORE /\ p[i + 1] = PACKAGE

\* str(ver) inside the f-strings of load_module.
Fmt(ver) == IF ver = None THEN <<"N", "o", "n", "e">> ELSE ver

RECURSIVE FilterSeq(_)
FilterSeq(q) ==
  IF q = <<>> THEN <<>>
  ELSE IF ContainsBase(q[1]) THEN FilterSeq(Tail(q))
  ELSE <<q[1]>> \o FilterSeq(Tail(q))

-----------------------------------------------------------------------------
(* State *)

VARIABLES
  root,      \* packages/math_module: "missing", "dir", or "file" (not a directory)
  fs,        \* entry name -> set of files in it (NoEntry, PlainFile, or a directory)
  zips,      \* version -> state of packages/math_module/<version>.zip
  catalog,   \* names that have a prefix in the bucket
  sys_path,  \* sys.path, first entry first
  loaded,    \* version of the module most recently initialised by load_module
  wk,        \* per worker: the request it serves and where it is in the handler
  nreq,      \* requests started so far
  last       \* the request answered most recently, and its response

vars == <<root, fs, zips, catalog, sys_path, loaded, wk, nreq, last>>

ZipKinds == {"none", "good", "corrupt", "damaged"}

\* What each entry of the store can be when the server starts: a complete
\* version, one with a file left from an earlier build, a directory without
\* the package, a plain file, or nothing.
InitEntries(n) ==
  CASE n = N2 -> {NoEntry, FullDir}
    [] n = N9 -> {NoEntry, FullDir, EmptyDir, StaleDir}
    [] n = N10 -> {NoEntry, FullDir, PlainFile}
    [] n = NX -> {NoEntry, FullDir}

\* The error body of check_update (lines 191-197) and the initial value of json.
Degraded ==
  [installed |-> None, latest |-> None, previous |-> None,
   update_available |-> FALSE, rollback_available |-> FALSE]

Snapshot ==
  [root |-> root, fs |-> fs, zips |-> zips,
   sys_path |-> sys_path, loaded |-> loaded]
NoSnapshot ==
  [root |-> "missing", fs |-> [n \in LocalNames |-> NoEntry],
   zips |-> [v \in RemoteNames |-> "none"],
   sys_path |-> <<>>, loaded |-> None]

Fresh(kind, snap) ==
  [pc |-> "idle", req |-> kind, at |-> "none", installed |-> None,
   previous |-> None, online |-> <<>>, latest |-> None, listing |-> {},
   ver |-> None, k |-> 0, res |-> "none", json |-> Degraded, pre |-> snap,
   listed |-> "no", vanished |-> FALSE,
   seen |-> {}, during |-> None, before |-> None, enum |-> {}]

Init ==
  /\ root \in {"missing", "dir", "file"}
  /\ fs \in [LocalNames -> {NoEntry, FullDir, EmptyDir, StaleDir, PlainFile}]
  /\ \A n \in LocalNames : fs[n] \in InitEntries(n)
  /\ root # "dir" => \A n \in LocalNames : fs[n] = NoEntry
  /\ zips = [v \in RemoteNames |-> "none"]
  /\ catalog \in SUBSET RemoteNames
  /\ sys_path = <<SitePath>>
  /\ loaded = None
  /\ wk = [w \in Workers |-> Fresh("none", NoSnapshot)]
  /\ nreq = 0
  /\ last = [req |-> "none", res |-> "none"]

\* Starting states of the concurrent runs: the store holds 2.0 and possibly
\* 9.0 and 10.0, or its root is missing or not a directory.
InitConc ==
  /\ root \in {"missing", "dir", "file"}
  /\ fs \in [LocalNames -> {NoEntry, FullDir}]
  /\ root # "dir" => \A n \in LocalNames : fs[n] = NoEntry
  /\ root = "dir" => fs[N2] = FullDir /\ fs[NX] = NoEntry
  /\ zips = [v \in RemoteNames |-> "none"]
  /\ catalog \in {{}, {N10}, {N9, N10}}
  /\ sys_path = <<SitePath>>
  /\ loaded = None
  /\ wk = [w \in Workers |-> Fresh("none", NoSnapshot)]
  /\ nreq = 0
  /\ last = [req |-> "none", res |-> "none"]

\* os.listdir(base): directories, stray files and downloaded archives.
Listing ==
  {n \in LocalNames : fs[n] # NoEntry}
    \cup {ZipName(v) : v \in {u \in RemoteNames : zips[u] # "none"}}

-----------------------------------------------------------------------------
(* Where a handler continues after a call returns *)

\* Variant of check_update_except: the handler lets the exception through.
check_update_reraise(r) ==
  [r EXCEPT !.pc = "done", !.res = "error500"]

\* check_update's except clause, lines 189-197.
check_update_except(r) ==
  [r EXCEPT !.pc = "done", !.res = "json", !.json = Degraded]

\* An exception raised while the request r is served.
Raised(r) ==
  IF r.req = "status" THEN check_update_except(r)
  ELSE [r EXCEPT !.pc = "done", !.res = "error500"]

\* Variant of check_update_result: >= where the code has >.
check_update_result_ge(installed, online, previous) ==
  IF online = <<>>
  THEN [installed |-> installed, latest |-> None, previous |-> None,
        update_available |-> FALSE, rollback_available |-> FALSE]
  ELSE LET latest == online[Len(online)]
       IN [installed |-> installed, latest |-> latest, previous |-> previous,
           update_available |->
             (installed = None \/ ~VersionLess(latest, installed)),
           rollback_available |-> previous # None]

\* Lines 167-187 of check_update; previous is only read when online is non-empty.
check_update_result(installed, online, previous) ==
  IF online = <<>>
  THEN [installed |-> installed, latest |-> None, previous |-> None,
        update_available |-> FALSE, rollback_available |-> FALSE]
  ELSE LET latest == online[Len(online)]
       IN [installed |-> installed, latest |-> latest, previous |-> previous,
           update_available |->
             (installed = None \/ VersionLess(installed, latest)),
           rollback_available |-> previous # None]

AfterInstalled(r, v) ==
  CASE r.at = "L164" -> [r EXCEPT !.installed = v, !.pc = "lvo", !.at = "L165"]
    [] r.at = "L212" -> [r EXCEPT !.installed = v, !.pc = "force_reload",
                                  !.ver = v, !.at = "L213"]
    [] r.at = "L232" -> [r EXCEPT !.installed = v, !.pc = "gpv_listdir",
                                  !.at = "L233"]

\* Variant of AfterPrevious: the rollback branch without its "if previous:".
AfterPrevious_unguarded(r, v) ==
  CASE r.at = "L177" ->
         [r EXCEPT !.previous = v, !.pc = "done", !.res = "json",
                   !.json = check_update_result(r.installed, r.online, v)]
    [] r.at = "L233" -> [r EXCEPT !.previous = v, !.pc = "rb_rmtree"]

AfterPrevious(r, v) ==
  CASE r.at = "L177" ->
         [r EXCEPT !.previous = v, !.pc = "done", !.res = "json",
                   !.json = check_update_result(r.installed, r.online, v)]
    [] r.at = "L233" ->
         IF v # None
         THEN [r EXCEPT !.previous = v, !.pc = "rb_rmtree"]
         ELSE [r EXCEPT !.previous = v, !.pc = "done", !.res = "redirect"]

\* Variant of update_latest: an empty list is answered like a finished update.
update_latest_silent(r, online) ==
  IF online = <<>> THEN [r EXCEPT !.pc = "done", !.res = "redirect"]
  ELSE [r EXCEPT !.online = online, !.latest = online[Len(online)],
                 !.pc = "download"]

\* Line 225: list_versions_online()[-1], and the step after it.
update_latest(r, online) ==
  IF online = <<>> THEN Raised(r)
  ELSE [r EXCEPT !.online = online, !.latest = online[Len(online)],
                 !.pc = "download"]

AfterListing(r, online) ==
  CASE r.at = "L165" /\ online = <<>> ->
         [r EXCEPT !.online = online, !.pc = "done", !.res = "json",
                   !.json = check_update_result(r.installed, online, None)]
    [] r.at = "L165" /\ online # <<>> ->
         [r EXCEPT !.online = online, !.pc = "gpv_listdir", !.at = "L177"]
    [] r.at = "L225" -> update_latest(r, online)

AfterLoad(r) ==
  CASE r.at = "L213" /\ r.req = "compute" ->
         [r EXCEPT !.pc = "done", !.res = "page"]
    [] r.at = "L213" /\ r.req = "update" ->
         [r EXCEPT !.pc = "lvo", !.at = "L225"]
    [] r.at = "L213" /\ r.req = "rollback" ->
         [r EXCEPT !.pc = "giv_listdir", !.at = "L232"]
    [] r.at \in {"L228", "L237"} ->
         [r EXCEPT !.pc = "done", !.res = "redirect"]

-----------------------------------------------------------------------------
(* Steps of the handlers *)

Quiet(w) == \A o \in Workers \ {w} : wk[o].pc = "idle"

\* The request is taken by the first free worker.
StartRequest(w, kind, limit, snap) ==
  /\ wk[w].pc = "idle"
  /\ \A o \in Workers : o < w => wk[o].pc # "idle"
  /\ nreq < limit
  /\ nreq' = nreq + 1
  /\ wk' = [wk EXCEPT ![w] =
              [Fresh(kind, snap) EXCEPT
                 !.pc = "giv_listdir",
                 !.at = IF kind = "status" THEN "L164" ELSE "L212"]]
  /\ UNCHANGED <<root, fs, zips, catalog, sys_path, loaded, last>>

\* A request arrives while no other request is being served.  The record keeps
\* the store as it was on arrival, for the statements about before and after.
BeginSeq(w) ==
  /\ Quiet(w)
  /\ \E kind \in {"status", "compute", "update", "rollback"} :
       StartRequest(w, kind, MaxRequests, Snapshot)

\* A request arrives at any time (the server handles requests in threads).
\* The store on arrival is not kept: another request may change it meanwhile.
BeginConc(w) ==
  \E kind \in {"status", "compute", "update", "rollback"} :
    StartRequest(w, kind, MaxConcurrent, NoSnapshot)

\* get_installed_version, lines 68-72: the existence test and os.listdir.
get_installed_version_listdir(w) ==
  /\ wk[w].pc = "giv_listdir"
  /\ wk' = [wk EXCEPT ![w] =
       CASE root = "missing" -> AfterInstalled(@, None)
         [] root = "file" -> Raised(@)
         [] root = "dir" -> [@ EXCEPT !.pc = "giv_isdir", !.listing = Listing]]
  /\ UNCHANGED <<root, fs, zips, catalog, sys_path, loaded, nreq, last>>

\* The request of worker u is an update whose extract_zip has deleted the
\* target directory (line 127) and has not yet written every member (line 130).
Unpacking(u) ==
  /\ wk[u].req = "update"
  /\ wk[u].pc \in {"extract_open", "extract_member"}

\* What the read of worker w at lines 72-80 met, kept for the statements about
\* concurrent requests: of a status request, the files of the directory it
\* reports and the update that was unpacking at that moment (its target and
\* the version it found installed); of a rollback, the versions enumerated.
ReadRecord(w, r, v) ==
  LET us == {u \in Workers \ {w} : Unpacking(u)}
  IN CASE r.at = "L164" /\ us # {} ->
            LET u == CHOOSE x \in us : TRUE
            IN [r EXCEPT !.seen = IF v = None THEN {} ELSE fs[v],
                         !.during = wk[u].latest,
                         !.before = wk[u].installed]
       [] r.at = "L232" ->
            [r EXCEPT !.enum = QualifyingVersions(fs, wk[w].listing)]
       [] OTHER -> r

\* get_installed_version, lines 72-80: the isdir/parse loop and the sort.
get_installed_version(w) ==
  /\ wk[w].pc = "giv_isdir"
  /\ LET v == InstalledOf(QualifyingVersions(fs, wk[w].listing))
     IN wk' = [wk EXCEPT ![w] =
          AfterInstalled(
            ReadRecord(w, [@ EXCEPT !.listing = {},
                                    !.vanished = Vanished(fs, wk[w].listing)],
                       v),
            v)]
  /\ UNCHANGED <<root, fs, zips, catalog, sys_path, loaded, nreq, last>>

\* get_previous_version, lines 87-91.
get_previous_version_listdir(w) ==
  /\ wk[w].pc = "gpv_listdir"
  /\ wk' = [wk EXCEPT ![w] =
       CASE root = "missing" -> AfterPrevious(@, None)
         [] root = "file" -> Raised(@)
         [] root = "dir" -> [@ EXCEPT !.pc = "gpv_isdir", !.listing = Listing]]
  /\ UNCHANGED <<root, fs, zips, catalog, sys_path, loaded, nreq, last>>

\* get_previous_version, lines 91-100.
get_previous_version(w) ==
  /\ wk[w].pc = "gpv_isdir"
  /\ wk' = [wk EXCEPT ![w] =
       AfterPrevious([@ EXCEPT !.listing = {},
                                !.vanished = @ \/ Vanished(fs, wk[w].listing)],
                     PreviousOf(QualifyingVersions(fs, @.listing)))]
  /\ UNCHANGED <<root, fs, zips, catalog, sys_path, loaded, nreq, last>>

\* What the listing endpoint can answer: an error, or the bucket's prefixes.
Responses ==
  {[ok |-> FALSE, prefixes |-> {}],
   [ok |-> TRUE, prefixes |-> {MakePrefix(n) : n \in catalog}]}

\* The call of list_versions_online at line 165 (check_update) or 225 (update),
\* with the test that follows it.
call_list_versions_online(w) ==
  /\ wk[w].pc = "lvo"
  /\ \E resp \in Responses :
       wk' = [wk EXCEPT ![w] =
                AfterListing([@ EXCEPT !.listed = IF resp.ok THEN "ok" ELSE "failed"],
                             list_versions_online(resp))]
  /\ UNCHANGED <<root, fs, zips, catalog, sys_path, loaded, nreq, last>>

\* Variant of force_reload: the sys.path entries of the store are kept.
force_reload_keep(w) ==
  /\ wk[w].pc = "force_reload"
  /\ wk' = [wk EXCEPT ![w].pc = "load_insert"]
  /\ UNCHANGED <<root, fs, zips, catalog, sys_path, loaded, nreq, last>>

\* force_reload, lines 25-26: drop every sys.path entry under the store.
\* load_module creates the module with module_from_spec and exec_module and
\* never enters it in sys.modules, so the loop of lines 21-23 finds nothing
\* of the package to delete; sys.modules is therefore not part of the state.
force_reload(w) ==
  /\ wk[w].pc = "force_reload"
  /\ sys_path' = FilterSeq(sys_path)
  /\ wk' = [wk EXCEPT ![w].pc = "load_insert"]
  /\ UNCHANGED <<root, fs, zips, catalog, loaded, nreq, last>>

\* load_module, line 38.
load_module_insert(w) ==
  /\ wk[w].pc = "load_insert"
  /\ sys_path' = <<VersionPath(Fmt(wk[w].ver))>> \o sys_path
  /\ wk' = [wk EXCEPT ![w].pc = "load_exec"]
  /\ UNCHANGED <<root, fs, zips, catalog, loaded, nreq, last>>

EntryPointExists(f, ver) == IsDir(f, ver) /\ INIT_PY \in f[ver]

\* load_module, lines 40-43: initialise the module from <ver>/math_module/__init__.py.
load_module(w) ==
  /\ wk[w].pc = "load_exec"
  /\ IF EntryPointExists(fs, wk[w].ver)
     THEN /\ loaded' = wk[w].ver
          /\ wk' = [wk EXCEPT ![w] = AfterLoad(@)]
     ELSE /\ loaded' = loaded
          /\ wk' = [wk EXCEPT ![w] = Raised(@)]
  /\ UNCHANGED <<root, fs, zips, catalog, sys_path, nreq, last>>

\* download_zip, lines 106-117: makedirs, then the GET, then the write.
download_zip(w) ==
  /\ wk[w].pc = "download"
  /\ IF root = "file"
     THEN /\ wk' = [wk EXCEPT ![w] = Raised(@)]
          /\ UNCHANGED <<root, zips>>
     ELSE /\ root' = "dir"
          /\ \E got \in {"neterror", "good", "corrupt", "damaged"} :
               IF got = "neterror"
               THEN /\ wk' = [wk EXCEPT ![w] = Raised(@)]
                    /\ zips' = zips
               ELSE /\ wk' = [wk EXCEPT ![w].pc = "extract_rmtree"]
                    /\ zips' = [zips EXCEPT ![wk[w].latest] = got]
  /\ UNCHANGED <<fs, catalog, sys_path, loaded, nreq, last>>

\* Variant of extract_zip_rmtree: the existing directory is unpacked into.
extract_zip_rmtree_kept(w) ==
  /\ wk[w].pc = "extract_rmtree"
  /\ LET v == wk[w].latest
     IN IF fs[v] = PlainFile
        THEN /\ wk' = [wk EXCEPT ![w] = Raised(@)]
             /\ fs' = fs
        ELSE /\ wk' = [wk EXCEPT ![w].pc = "extract_open"]
             /\ fs' = fs
  /\ UNCHANGED <<root, zips, catalog, sys_path, loaded, nreq, last>>

\* extract_zip, lines 124-127: remove what is at the target path.
extract_zip_rmtree(w) ==
  /\ wk[w].pc = "extract_rmtree"
  /\ LET v == wk[w].latest
     IN IF fs[v] = PlainFile
        THEN /\ wk' = [wk EXCEPT ![w] = Raised(@)]
             /\ fs' = fs
        ELSE /\ wk' = [wk EXCEPT ![w].pc = "extract_open"]
             /\ fs' = [fs EXCEPT ![v] = NoEntry]
  /\ UNCHANGED <<root, zips, catalog, sys_path, loaded, nreq, last>>

\* extract_zip, line 129: open the archive.
extract_zip_open(w) ==
  /\ wk[w].pc = "extract_open"
  /\ wk' = [wk EXCEPT ![w] =
       IF zips[@.latest] \in {"none", "corrupt"} THEN Raised(@)
       ELSE [@ EXCEPT !.pc = "extract_member", !.k = 1]]
  /\ UNCHANGED <<root, fs, zips, catalog, sys_path, loaded, nreq, last>>

\* extract_zip, line 130: extractall writes one member after the other.
extract_zip(w) ==
  /\ wk[w].pc = "extract_member"
  /\ LET v == wk[w].latest
         k == wk[w].k
     IN IF zips[v] # "good" /\ k = Len(ArchiveMembers)
        THEN /\ wk' = [wk EXCEPT ![w] = Raised(@)]
             /\ fs' = fs
        ELSE /\ fs' = [fs EXCEPT ![v] = @ \cup {DirMark, ArchiveMembers[k]}]
             /\ wk' = [wk EXCEPT ![w] =
                  IF k = Len(ArchiveMembers)
                  THEN [@ EXCEPT !.pc = "force_reload", !.ver = v, !.at = "L228"]
                  ELSE [@ EXCEPT !.k = k + 1]]
  /\ UNCHANGED <<root, zips, catalog, sys_path, loaded, nreq, last>>

\* Variant of rollback_rmtree: the previous version is loaded, nothing is deleted.
rollback_rmtree_skipped(w) ==
  /\ wk[w].pc = "rb_rmtree"
  /\ wk' = [wk EXCEPT ![w] =
       [@ EXCEPT !.pc = "force_reload", !.ver = wk[w].previous, !.at = "L237"]]
  /\ UNCHANGED <<root, fs, zips, catalog, sys_path, loaded, nreq, last>>

\* The rollback branch, line 236: delete the installed version's directory.
rollback_rmtree(w) ==
  /\ wk[w].pc = "rb_rmtree"
  /\ LET v == wk[w].installed
     IN IF v # None /\ IsDir(fs, v)
        THEN /\ fs' = [fs EXCEPT ![v] = NoEntry]
             /\ wk' = [wk EXCEPT ![w] =
                  [@ EXCEPT !.pc = "force_reload", !.ver = wk[w].previous,
                            !.at = "L237"]]
        ELSE /\ fs' = fs
             /\ wk' = [wk EXCEPT ![w] = Raised(@)]
  /\ UNCHANGED <<root, zips, catalog, sys_path, loaded, nreq, last>>

\* The response has been sent; the worker is free for the next request.
Respond(w) ==
  /\ wk[w].pc = "done"
  /\ wk' = [wk EXCEPT ![w] = Fresh("none", NoSnapshot)]
  /\ last' = [req |-> wk[w].req, res |-> wk[w].res]
  /\ UNCHANGED <<root, fs, zips, catalog, sys_path, loaded, nreq>>

Step(w) ==
  \/ get_installed_version_listdir(w)
  \/ get_installed_version(w)
  \/ get_previous_version_listdir(w)
  \/ get_previous_version(w)
  \/ call_list_versions_online(w)
  \/ force_reload(w)
  \/ load_module_insert(w)
  \/ load_module(w)
  \/ download_zip(w)
  \/ extract_zip_rmtree(w)
  \/ extract_zip_open(w)
  \/ extract_zip(w)
  \/ rollback_rmtree(w)
  \/ Respond(w)

\* One request at a time: each handler runs from its first line to its response.
Next == \E w \in Workers : BeginSeq(w) \/ Step(w)

Spec == Init /\ [][Next]_vars

\* Requests served concurrently, interleaved at the steps above.
NextConc == \E w \in Workers : BeginConc(w) \/ Step(w)

SpecConc == InitConc /\ [][NextConc]_vars

-----------------------------------------------------------------------------
(* Reference notions the properties are stated with: the version names of   *)
(* the universe and their numeric rank, given outright.                     *)

RefVersions == {N2, N9, N10}

RefRank(n) == CASE n = N2 -> 2 [] n = N9 -> 9 [] n = N10 -> 10

RefMax(S) ==
  IF S = {} THEN None
  ELSE CHOOSE x \in S : \A o \in S : RefRank(o) <= RefRank(x)

RefSecond(S) ==
  IF Cardinality(S) < 2 THEN None ELSE RefMax(S \ {RefMax(S)})

RECURSIVE RefAscending(_)
RefAscending(S) ==
  IF S = {} THEN <<>> ELSE Append(RefAscending(S \ {RefMax(S)}), RefMax(S))

Range(q) == {q[i] : i \in 1..Len(q)}

\* The local installation set of a store: its version directories.
InstalledSet(f) == {n \in RefVersions : DirMark \in f[n]}

\* What installedVersion() and previousVersion() return in the current state.
installedVersion ==
  IF root = "missing" THEN None
  ELSE InstalledOf(QualifyingVersions(fs, Listing))

previousVersion ==
  IF root = "missing" THEN None
  ELSE PreviousOf(QualifyingVersions(fs, Listing))

Done(w, kind) == wk[w].pc = "done" /\ wk[w].req = kind

-----------------------------------------------------------------------------
(* Properties *)

\* C1: when the installed version is I and the catalog's latest version L is
\* greater than I, then after an update that succeeded installedVersion()
\* is L and the store is the old store plus the directory of L; every other
\* entry is as it was.
C1_UpdateAddsLatest ==
  \A w \in Workers :
    LET old == InstalledSet(wk[w].pre.fs)
        I == RefMax(old)
        L == RefMax(catalog \cap RefVersions)
    IN (/\ Done(w, "update") /\ wk[w].res = "redirect"
        /\ I # None /\ L # None /\ RefRank(L) > RefRank(I))
       => /\ installedVersion = L
          /\ InstalledSet(fs) = old \cup {L}
          /\ \A n \in LocalNames \ {L} : fs[n] = wk[w].pre.fs[n]

C1_Witness ==
  \E w \in Workers :
    /\ Done(w, "update") /\ wk[w].res = "redirect"
    /\ InstalledSet(wk[w].pre.fs) = {N2, N9}
    /\ catalog = {N9, N10}
    /\ InstalledSet(fs) = {N2, N9, N10}
    /\ installedVersion = N10

\* C2: when the store holds at least two versions, installed I and previous P,
\* then after a rollback that succeeded installedVersion() is P and the store
\* is the old store without the directory of I; every other entry is as it was.
C2_RollbackRemovesInstalled ==
  \A w \in Workers :
    LET old == InstalledSet(wk[w].pre.fs)
    IN (/\ Done(w, "rollback") /\ wk[w].res = "redirect"
        /\ Cardinality(old) >= 2)
       => /\ installedVersion = RefSecond(old)
          /\ InstalledSet(fs) = old \ {RefMax(old)}
          /\ \A n \in LocalNames \ {RefMax(old)} : fs[n] = wk[w].pre.fs[n]

C2_Witness ==
  \E w \in Workers :
    /\ Done(w, "rollback") /\ wk[w].res = "redirect"
    /\ InstalledSet(wk[w].pre.fs) = {N2, N9, N10}
    /\ InstalledSet(fs) = {N2, N9}
    /\ installedVersion = N9
    /\ loaded = N9

\* C3: an update requested while no version directory is present (the root is
\* missing, or holds none) and the catalog holds versions ends with the
\* catalog's latest version installed and loaded.
C3_AbsentUpdateInstallsLatest ==
  \A w \in Workers :
    (/\ Done(w, "update")
     /\ wk[w].pre.root # "file"
     /\ InstalledSet(wk[w].pre.fs) = {}
     /\ catalog # {} /\ catalog \subseteq RefVersions)
    => /\ wk[w].res = "redirect"
       /\ installedVersion = RefMax(catalog)
       /\ loaded = RefMax(catalog)

\* C4: an update that finds the catalog empty, or whose listing failed, ends
\* in an error response; nothing was fetched or extracted and the store is as
\* it was.
C4_EmptyCatalogUpdateFails ==
  \A w \in Workers :
    (/\ Done(w, "update")
     /\ \/ catalog = {}
        \/ wk[w].listed # "no" /\ wk[w].online = <<>>)
    => /\ wk[w].res = "error500"
       /\ fs = wk[w].pre.fs
       /\ zips = wk[w].pre.zips
       /\ root = wk[w].pre.root

C4_Witness ==
  \E w \in Workers :
    /\ Done(w, "update") /\ wk[w].listed = "failed"
    /\ wk[w].res = "error500"
    /\ InstalledSet(fs) = {N2, N9}
    /\ fs = wk[w].pre.fs

C6_Original ==
  \A w \in Workers :
    LET here == InstalledSet(fs)
        there == Range(wk[w].online)
    IN (Done(w, "status") /\ root # "file")
       => wk[w].json.update_available
            = (\/ here = {}
               \/ there # {} /\ RefRank(RefMax(there)) > RefRank(RefMax(here)))

\* C6 as amended: status reports update_available exactly when the listing
\* it obtained is non-empty and either no version is installed or the latest
\* version of that listing is greater than the installed one.
C6_UpdateAvailable ==
  \A w \in Workers :
    LET here == InstalledSet(fs)
        there == Range(wk[w].online)
    IN Done(w, "status")
       => wk[w].json.update_available
            = (/\ there # {}
               /\ \/ here = {}
                  \/ RefRank(RefMax(there)) > RefRank(RefMax(here)))

C6_Witness ==
  \E w \in Workers :
    /\ Done(w, "status")
    /\ InstalledSet(fs) = {N2, N9}
    /\ wk[w].online = <<N9, N10>>
    /\ wk[w].json.update_available

\* C7 as stated: status reports rollback_available exactly when the store
\* holds at least two version directories, and its previous field is the
\* second-highest of them, whatever the listing.
C7_Original ==
  \A w \in Workers :
    Done(w, "status")
    => /\ wk[w].json.rollback_available = (Cardinality(InstalledSet(fs)) >= 2)
       /\ wk[w].json.previous = RefSecond(InstalledSet(fs))

\* C7 as amended: when the listing status obtained is non-empty, it reports
\* rollback_available exactly when the store holds at least two version
\* directories and its previous field is the second-highest of them; when
\* the listing is empty, previous is absent and rollback_available is false.
C7_RollbackAvailable ==
  \A w \in Workers :
    Done(w, "status")
    => IF wk[w].online # <<>>
       THEN /\ wk[w].json.rollback_available
                 = (Cardinality(InstalledSet(fs)) >= 2)
            /\ wk[w].json.previous = RefSecond(InstalledSet(fs))
       ELSE /\ wk[w].json.rollback_available = FALSE
            /\ wk[w].json.previous = None

C7_Witness ==
  \E w \in Workers :
    /\ Done(w, "status")
    /\ InstalledSet(fs) = {N2, N9, N10}
    /\ wk[w].online # <<>>
    /\ wk[w].json.rollback_available
    /\ wk[w].json.previous = N9

\* C8: whenever the listing endpoint answered, the list of versions obtained
\* from it holds exactly the bucket's names that are versions, in ascending
\* order; names that are not versions are left out.
C8_ListingSkipsNonVersions ==
  \A w \in Workers :
    wk[w].listed = "ok"
    => wk[w].online = RefAscending(catalog \cap RefVersions)

\* C9: installedVersion() is the highest and previousVersion() the second
\* highest, by numeric rank, of the directories under the root whose names
\* are versions; other names, plain files and archives do not count; both are
\* absent without a root, installedVersion() without any such directory and
\* previousVersion() with fewer than two.  The values the handlers obtained
\* are these.
C9_InstalledIsNumericMaximum ==
  /\ root # "file"
       => /\ installedVersion = RefMax(InstalledSet(fs))
          /\ previousVersion = RefSecond(InstalledSet(fs))
  /\ \A w \in Workers :
       /\ (Done(w, "status") /\ root # "file")
            => wk[w].json.installed = RefMax(InstalledSet(fs))
       /\ wk[w].pc = "rb_rmtree"
            => /\ wk[w].installed = RefMax(InstalledSet(fs))
               /\ wk[w].previous = RefSecond(InstalledSet(fs))

C9_Witness ==
  \E w \in Workers :
    /\ Done(w, "status")
    /\ wk[w].json.installed = N10
    /\ wk[w].json.previous = N9
    /\ fs[NX] = FullDir
    /\ zips[N10] # "none"
    /\ InstalledSet(fs) = {N9, N10}

\* C10: every status request, whatever runs beside it, is answered with a
\* body of the five fields, each absent or a name, or a boolean; when the
\* root cannot be listed the body is the one with nothing available.
C10_StatusNeverFails ==
  \A w \in Workers :
    Done(w, "status")
    => /\ wk[w].res = "json"
       /\ DOMAIN wk[w].json
            = {"installed", "latest", "previous",
               "update_available", "rollback_available"}
       /\ wk[w].json.installed \in LocalNames \cup {None}
       /\ wk[w].json.latest \in RemoteNames \cup {None}
       /\ wk[w].json.previous \in LocalNames \cup {None}
       /\ wk[w].json.update_available \in BOOLEAN
       /\ wk[w].json.rollback_available \in BOOLEAN
       /\ root = "file" => wk[w].json = Degraded

\* A status request that listed a directory which a rollback then removed.
C10_Witness ==
  \E w \in Workers :
    /\ Done(w, "status")
    /\ wk[w].vanished
    /\ wk[w].res = "json"
    /\ wk[w].json.installed = N9

\* C11: when an update failed on a corrupt or damaged archive of version v,
\* the directory of v is absent or fully populated, and installedVersion()
\* does not report v unless it is fully populated.
C11_ExtractionAtomic ==
  \A w \in Workers :
    LET v == wk[w].latest
    IN (/\ Done(w, "update") /\ wk[w].res = "error500"
        /\ v # None /\ zips[v] \in {"corrupt", "damaged"})
       => /\ DirMark \in fs[v] => fs[v] = FullDir
          /\ fs[v] # FullDir => installedVersion # v

\* The sys.path entries under the store.
StoreEntries(q) == {i \in 1..Len(q) : ContainsBase(q[i])}

\* C12: a load of version v right after a load of v leaves the process as the
\* first load left it: the same sys.path with one entry of the store, that of
\* v, the module of v loaded, initialised from the same files.
C12_LoadTwiceSameAsOnce ==
  \A w \in Workers :
    LET v == wk[w].installed
    IN (/\ Done(w, "compute") /\ wk[w].res = "page"
        /\ wk[w].pre.loaded = v
        /\ wk[w].pre.sys_path = <<VersionPath(v), SitePath>>)
       => /\ sys_path = wk[w].pre.sys_path
          /\ Cardinality(StoreEntries(sys_path)) = 1
          /\ loaded = wk[w].pre.loaded
          /\ fs[v] = wk[w].pre.fs[v]

C12_Witness ==
  \E w \in Workers :
    /\ Done(w, "compute") /\ wk[w].res = "page"
    /\ last = [req |-> "compute", res |-> "page"]
    /\ wk[w].pre.loaded = N10
    /\ wk[w].installed = N10
    /\ sys_path = <<VersionPath(N10), SitePath>>
    /\ loaded = N10

\* The worker is inside the mutation sequence of an update (the archive has
\* been written, the load of line 228 has not finished) or of a rollback (the
\* directory has been deleted, the load of line 237 has not finished).
InMutation(w) ==
  \/ /\ wk[w].req = "update"
     /\ \/ wk[w].pc \in {"extract_rmtree", "extract_open", "extract_member"}
        \/ /\ wk[w].at = "L228"
           /\ wk[w].pc \in {"force_reload", "load_insert", "load_exec"}
  \/ /\ wk[w].req = "rollback"
     /\ wk[w].at = "L237"
     /\ wk[w].pc \in {"force_reload", "load_insert", "load_exec"}

\* C13: updates and rollbacks exclude each other: no two requests are inside
\* their mutation sequences at the same time.
C13_MutationsExclusive ==
  \A w1, w2 \in Workers :
    w1 # w2 => ~(InMutation(w1) /\ InMutation(w2))

\* The version installed once the update of target t, started on a store whose
\* installed version was b, has finished.
RefAfterUpdate(b, t) ==
  IF b \in RefVersions /\ RefRank(b) > RefRank(t) THEN b ELSE t

\* C14: a status request that reads the store while an update is unpacking
\* reports the version installed before the update or the one installed after
\* it, and never a version whose directory is partly unpacked.
C14_StatusSeesBeforeOrAfter ==
  \A w \in Workers :
    (wk[w].req = "status" /\ wk[w].during # None)
    => /\ wk[w].installed \in
            {wk[w].before, RefAfterUpdate(wk[w].before, wk[w].during)}
       /\ ~(wk[w].installed = wk[w].during /\ wk[w].seen # FullDir)

\* C15: at every instant sys.path holds at most one entry under the store
\* root, and that entry is ahead of all other entries.
C15_OneStoreEntryFirst ==
  /\ Cardinality(StoreEntries(sys_path)) <= 1
  /\ StoreEntries(sys_path) \subseteq {1}

\* C16: the version a rollback deletes and the version it then loads are the
\* maximum and the second maximum of one enumeration of the store, hence two
\* different versions.
C16_RollbackPairFromOneListing ==
  \A w \in Workers :
    (wk[w].req = "rollback" /\ wk[w].pc = "rb_rmtree")
    => /\ wk[w].installed = RefMax(wk[w].enum \cap RefVersions)
       /\ wk[w].previous = RefSecond(wk[w].enum \cap RefVersions)
       /\ wk[w].installed # wk[w].previous

\* C20: in every status response that names both an installed and a previous
\* version, the previous version is strictly lower than the installed one.
C20_PreviousBelowInstalled ==
  \A w \in Workers :
    (/\ Done(w, "status")
     /\ wk[w].json.installed \in RefVersions
     /\ wk[w].json.previous \in RefVersions)
    => RefRank(wk[w].json.previous) < RefRank(wk[w].json.installed)

\* The extraction of the update served by worker w has completed.
Extracted(w) == wk[w].req = "update" /\ wk[w].at = "L228"

\* C17: after a successful extraction of version v the directory of v holds
\* exactly the entries of the archive, whatever it held before, and no other
\* entry of the store has changed.
C17_ExtractReplacesDirectory ==
  \A w \in Workers :
    Extracted(w)
    => /\ fs[wk[w].latest] = {DirMark} \cup Range(ArchiveMembers)
       /\ \A n \in LocalNames \ {wk[w].latest} : fs[n] = wk[w].pre.fs[n]

C17_Witness ==
  \E w \in Workers :
    /\ Extracted(w)
    /\ wk[w].latest = N9
    /\ wk[w].pre.fs[N9] = StaleDir
    /\ STALE_PY \notin fs[N9]
    /\ wk[w].pre.fs[N2] = FullDir

\* C18: a failed update leaves every version that was fully installed before
\* the call present and complete.
C18_FailedUpdateKeepsInstalled ==
  \A w \in Workers :
    (Done(w, "update") /\ wk[w].res = "error500" /\ wk[w].pre.root = "dir")
    => \A n \in RefVersions :
         FullDir \subseteq wk[w].pre.fs[n] => fs[n] = wk[w].pre.fs[n]

\* C19: after every successful update and every successful rollback the
\* version of the loaded module is the one installedVersion() reports.
C19_LoadedIsInstalled ==
  \A w \in Workers :
    (/\ Done(w, "update") \/ Done(w, "rollback")
     /\ wk[w].res = "redirect")
    => loaded = installedVersion

====
